---------------------------- MODULE Spec2Model ----------------------------
(* Sylva Decors enquiry system (src/ak3.py): the persistence layer, the    *)
(* credential bootstrap and check, the enquiry form, the memoised read of  *)
(* the enquiries and the spreadsheet / document export.                    *)
(*                                                                         *)
(* Every function of the script is one action, except add_default_owner,   *)
(* whose SELECT, INSERT and commit are separate steps so that the scripts  *)
(* of several sessions interleave inside it.  `last` records the step that *)
(* was taken last and what it returned to its caller.                      *)
EXTENDS Integers, Sequences, FiniteSets, TLC

\* ------------------------------------------------------------------ bounds
NumSessions == 2
MaxRows == 2

Sessions == 1..NumSessions

\* ------------------------------------------------------------- the state
VARIABLES
    envOk,       \* the five PG_* environment variables are all set
    dbUp,        \* the PostgreSQL server accepts connections right now
    engine,      \* st.cache_resource entry of get_db_connection
    tables,      \* CREATE TABLE IF NOT EXISTS has been committed
    enquiries,   \* rows of table enquiries, in insertion order
    nextId,      \* next value of the SERIAL sequence of enquiries.id
    users,       \* committed rows of table users
    localEnq,    \* st.session_state.enquiries of each session
    geCache,     \* st.cache_data entry of get_enquiries: <<>> or <<df>>
    xlsCache,    \* st.cache_data entries of generate_excel: df -> bytes
    pdfCache,    \* st.cache_data entries of generate_pdf: df -> bytes
    logged_in,   \* st.session_state.logged_in of each session: <<>> while
                 \* the key is not set, then <<flag>>
    view,        \* what the Owner Login tab rendered for each session
    pc,          \* where each session's add_default_owner stands
    pending,     \* the users row each session has inserted, uncommitted
    last         \* the step taken last, its arguments and its result

vars == <<envOk, dbUp, engine, tables, enquiries, nextId, users, localEnq,
          geCache, xlsCache, pdfCache, logged_in, view, pc, pending, last>>

storeVars == <<tables, enquiries, nextId, users>>
authVars == <<logged_in, view, pc, pending>>
cacheVars == <<geCache, xlsCache, pdfCache>>

\* ------------------------------------------------------------ the strings
\* A text that the program joins or splits is a sequence of characters.
ResinFurniture ==
    <<"R","e","s","i","n"," ","F","u","r","n","i","t","u","r","e">>
WallDecors == <<"W","a","l","l"," ","D","e","c","o","r","s">>
FunctionalDecors ==
    <<"F","u","n","c","t","i","o","n","a","l"," ","D","e","c","o","r","s">>
PreservationArts ==
    <<"P","r","e","s","e","r","v","a","t","i","o","n"," ","A","r","t","s">>
CorporateCorner ==
    <<"C","o","r","p","o","r","a","t","e"," ","C","o","r","n","e","r">>

\* the options of the multiselect
FurnitureOptions ==
    <<ResinFurniture, WallDecors, FunctionalDecors, PreservationArts,
      CorporateCorner>>

Separator == <<",", " ">>

RECURSIVE Join(_)
\* ", ".join(furniture_types)
Join(parts) ==
    IF parts = <<>> THEN <<>>
    ELSE IF Len(parts) = 1 THEN parts[1]
    ELSE parts[1] \o Separator \o Join(Tail(parts))

\* ", ".join(furniture_types) if furniture_types else ""
furniture_type_str(furniture_types) ==
    IF furniture_types # <<>> THEN Join(furniture_types) ELSE <<>>

StartsWith(str, prefix) ==
    /\ Len(str) >= Len(prefix)
    /\ SubSeq(str, 1, Len(prefix)) = prefix

RECURSIVE SplitFrom(_, _)
\* str.split(", "), as a reader of the furniture_type column applies it; cur
\* is the part read so far
SplitFrom(str, cur) ==
    IF str = <<>> THEN <<cur>>
    ELSE IF StartsWith(str, Separator)
         THEN <<cur>> \o SplitFrom(SubSeq(str, Len(Separator) + 1, Len(str)), <<>>)
         ELSE SplitFrom(Tail(str), Append(cur, Head(str)))

Split(str) == SplitFrom(str, <<>>)

SeqToSet(seq) == {seq[i] : i \in DOMAIN seq}

\* ------------------------------------------------------------- the inputs
\* What a visitor can put into the enquiry form: one complete submission,
\* one without a message, and one for each required field left empty.
Submissions ==
    LET full == [name |-> "Asha", email |-> "asha@example.com",
                 phone |-> "9800000000",
                 furniture_types |-> <<ResinFurniture, WallDecors>>,
                 message |-> "Two tables"]
    IN  { full,
          [full EXCEPT !.message = ""],
          [full EXCEPT !.name = ""],
          [full EXCEPT !.email = ""],
          [full EXCEPT !.phone = ""],
          [full EXCEPT !.furniture_types = <<>>] }

\* datetime.now().strftime('%Y-%m-%d %H:%M:%S')
Timestamps == {"2026-01-05 10:15:00"}

\* ------------------------------------------------------- the data frames
Columns7 ==
    <<"id", "name", "email", "phone", "furniture_type", "message", "timestamp">>
\* the keys of enquiry_data, in the order the dict literal gives them
Columns6 ==
    <<"name", "email", "phone", "furniture_type", "message", "timestamp">>

\* pandas fills the id of a row that has none with NaN; SERIAL ids start at 1
NaN == 0

DataFrame(columns, rows) == [columns |-> columns, rows |-> rows]

\* pd.DataFrame(columns=[...]) of line 419
EmptyFrame == DataFrame(Columns7, <<>>)

\* the row that INSERT stores for enquiry_data under identity id
TableRow(id, data) ==
    [id |-> id, name |-> data.name, email |-> data.email, phone |-> data.phone,
     furniture_type |-> data.furniture_type, message |-> data.message,
     timestamp |-> data.timestamp]

\* pd.concat([df, local_df], ignore_index=True): the local rows get id NaN
Concat(df, localRows) ==
    DataFrame(df.columns,
              df.rows \o [i \in DOMAIN localRows |-> TableRow(NaN, localRows[i])])

\* df.values: each row as the list of its values in column order
Values(df) ==
    [i \in DOMAIN df.rows |-> [c \in DOMAIN df.columns |-> df.rows[i][df.columns[c]]]]

\* --------------------------------------------------------- the connection
\* get_db_connection under st.cache_resource: the first call decides, every
\* later call gets the cached engine or the cached None
get_db_connection ==
    IF engine # "uncached" THEN engine
    ELSE IF ~envOk THEN "None"
    ELSE IF dbUp THEN "engine"
    ELSE "None"

\* a statement sent through the engine reaches the server
Reachable == dbUp

\* the server stops accepting connections; it rolls back what was not committed
StoreDown ==
    /\ dbUp
    /\ dbUp' = FALSE
    /\ pending' = [s \in Sessions |-> <<>>]
    /\ last' = [fn |-> "store_down"]
    /\ UNCHANGED <<envOk, engine, storeVars, localEnq, cacheVars, logged_in, view, pc>>

\* the server accepts connections again
StoreUp ==
    /\ ~dbUp
    /\ dbUp' = TRUE
    /\ last' = [fn |-> "store_up"]
    /\ UNCHANGED <<envOk, engine, storeVars, localEnq, cacheVars, authVars>>

\* CREATE TABLE IF NOT EXISTS: an existing table and its rows are kept
CreateIfNotExists(exists) == TRUE

init_db ==
    /\ engine' = get_db_connection
    /\ IF engine' = "None"
       THEN /\ last' = [fn |-> "init_db", ret |-> FALSE]
            /\ UNCHANGED storeVars
       ELSE IF Reachable
       THEN /\ tables' = CreateIfNotExists(tables)
            /\ last' = [fn |-> "init_db", ret |-> TRUE]
            /\ UNCHANGED <<enquiries, nextId, users>>
       ELSE /\ last' = [fn |-> "init_db", ret |-> FALSE]
            /\ UNCHANGED storeVars
    /\ UNCHANGED <<envOk, dbUp, localEnq, cacheVars, authVars>>

\* ------------------------------------------------------------ save_enquiry
\* (variant) the INSERT as an upsert that overwrites the newest row
InsertEnquiryUpsert(tbl, id, data) ==
    IF tbl = <<>> THEN <<TableRow(id, data)>>
    ELSE [tbl EXCEPT ![Len(tbl)] = TableRow(id, data)]

\* INSERT INTO enquiries ...; commit: one row appended under the next identity
InsertEnquiry(tbl, id, data) == Append(tbl, TableRow(id, data))

\* st.session_state.enquiries.append(enquiry_data)
StoreLocally(loc, s, data) == [loc EXCEPT ![s] = Append(@, data)]

\* what save_enquiry returns and what it leaves in the store, the session
\* and the connection cache
save_enquiry(s, name, email, phone, furniture_types, message, timestamp) ==
    LET eng == get_db_connection
        enquiry_data ==
            [name |-> name, email |-> email, phone |-> phone,
             furniture_type |-> furniture_type_str(furniture_types),
             message |-> message, timestamp |-> timestamp]
    IN  IF eng = "engine" /\ Reachable /\ tables
        THEN [ret |-> TRUE, engine |-> eng,
              enquiries |-> InsertEnquiry(enquiries, nextId, enquiry_data),
              nextId |-> nextId + 1, localEnq |-> localEnq]
        ELSE \* no engine, or the INSERT raised: local storage
             [ret |-> TRUE, engine |-> eng, enquiries |-> enquiries,
              nextId |-> nextId,
              localEnq |-> StoreLocally(localEnq, s, enquiry_data)]

\* (variant) the presence check without the phone
ValidWithoutPhone(sub) ==
    /\ sub.name # ""
    /\ sub.email # ""
    /\ sub.furniture_types # <<>>

\* if name and email and phone and furniture_types
Valid(sub) ==
    /\ sub.name # ""
    /\ sub.email # ""
    /\ sub.phone # ""
    /\ sub.furniture_types # <<>>

RECURSIVE SumLen(_, _)
SumLen(f, S) ==
    IF S = {} THEN 0
    ELSE LET x == CHOOSE y \in S : TRUE IN Len(f[x]) + SumLen(f, S \ {x})

\* enquiries kept so far, in the table and in the sessions
Saved == Len(enquiries) + SumLen(localEnq, Sessions)

MsgSuccess == "Enquiry submitted successfully!"
MsgFailed == "Failed to submit enquiry. Please try again later."
MsgRequired ==
    "Please fill all required fields (Name, Email, Phone, Furniture Types)."

\* the df of the get_enquiries call this session made in the step before
JustFetched(s) ==
    IF last.fn = "get_enquiries" /\ last.s = s THEN <<last.ret>> ELSE <<>>

\* the submit handler of the enquiry form
enquiry_form(s, sub, timestamp) ==
    /\ Valid(sub) => Saved < MaxRows
    /\ IF Valid(sub)
       THEN LET r == save_enquiry(s, sub.name, sub.email, sub.phone,
                                  sub.furniture_types, sub.message, timestamp)
            IN  /\ engine' = r.engine
                /\ enquiries' = r.enquiries
                /\ nextId' = r.nextId
                /\ localEnq' = r.localEnq
                /\ last' = [fn |-> "enquiry_form", s |-> s, sub |-> sub,
                            called |-> TRUE, ret |-> r.ret,
                            msg |-> IF r.ret THEN MsgSuccess ELSE MsgFailed,
                            before |-> JustFetched(s)]
       ELSE /\ last' = [fn |-> "enquiry_form", s |-> s, sub |-> sub,
                        called |-> FALSE, ret |-> FALSE, msg |-> MsgRequired,
                        before |-> <<>>]
            /\ UNCHANGED <<engine, enquiries, nextId, localEnq>>
    /\ UNCHANGED <<envOk, dbUp, tables, users, cacheVars, authVars>>

\* ----------------------------------------------------------- get_enquiries
\* lines 417-419: the local enquiries, or an empty frame
LocalFrame(loc) ==
    IF loc # <<>> THEN DataFrame(Columns6, loc) ELSE EmptyFrame

\* lines 408-413: the table, with the local enquiries appended if any
TableFrame(tbl, loc) ==
    IF loc # <<>> THEN Concat(DataFrame(Columns7, tbl), loc)
    ELSE DataFrame(Columns7, tbl)

\* the body of get_enquiries, run on a cache miss
get_enquiries_body(eng, s) ==
    IF eng = "engine"
    THEN IF Reachable /\ tables
         THEN [ret |-> TableFrame(enquiries, localEnq[s]), path |-> "db"]
         ELSE [ret |-> LocalFrame(localEnq[s]), path |-> "select_raised"]
    ELSE [ret |-> LocalFrame(localEnq[s]), path |-> "no_engine"]

\* st.cache_data on a function without arguments: one entry, never dropped
CacheLookup(cache) == cache

get_enquiries(s) ==
    LET hit == CacheLookup(geCache)
        \* the submission this session made in the step before, and the
        \* frame it had fetched in the step before that
        chained == last.fn = "enquiry_form" /\ last.s = s /\ last.called
    IN  /\ IF hit # <<>>
           THEN /\ last' = [fn |-> "get_enquiries", s |-> s, ret |-> hit[1],
                            path |-> "hit", down |-> FALSE,
                            before |-> IF chained THEN last.before ELSE <<>>,
                            sub |-> IF chained THEN <<last.sub>> ELSE <<>>]
                /\ UNCHANGED <<engine, geCache>>
           ELSE LET eng == get_db_connection
                    r == get_enquiries_body(eng, s)
                IN  /\ engine' = eng
                    /\ geCache' = <<r.ret>>
                    /\ last' = [fn |-> "get_enquiries", s |-> s, ret |-> r.ret,
                                path |-> r.path,
                                down |-> eng = "None" \/ ~Reachable,
                                before |-> IF chained THEN last.before ELSE <<>>,
                                sub |-> IF chained THEN <<last.sub>> ELSE <<>>]
        /\ UNCHANGED <<envOk, dbUp, storeVars, localEnq, xlsCache, pdfCache,
                       authVars>>

\* ---------------------------------------------------------- generate_excel
SheetTitle == "Sylva Decors Inquiry List"

\* enumerate(pd.DataFrame([df.columns]).values, 2)
HeaderRow == 2
\* enumerate(df.values, 3)
FirstDataIndex == 3
\* sheet.cell(row=r_idx + 1, ...)
DataCellRow(r_idx) == r_idx + 1

\* pandas holds an integer column that has a NaN in it as floats
HasNaN(df) == \E i \in DOMAIN df.rows : "id" \in DOMAIN df.rows[i] /\ df.rows[i].id = NaN

\* len(str(value)) of a value of the given column of df
ValueLen(df, column, value) ==
    IF column # "id" THEN Len(value)
    ELSE IF value = NaN THEN Len("nan")
    ELSE IF HasNaN(df) THEN Len(ToString(value)) + Len(".0")
    ELSE Len(ToString(value))

SetMax(S) == CHOOSE x \in S : \A y \in S : y <= x

\* range(1, 8)
NumColumns == 7
\* min((max_length + 2), 50)
WidthPadding == 2
MaxWidth == 50

\* sheet.max_row
max_row(cells) == SetMax({rc[1] : rc \in DOMAIN cells})

\* len(str(cell.value)) of the cell at <<r, c>>; sheet[...] makes the cells of
\* the range that were never written, and their value is None
CellLen(df, cells, r, c) ==
    IF <<r, c>> \notin DOMAIN cells THEN Len("None")
    ELSE IF r = HeaderRow THEN Len(cells[<<r, c>>])
    ELSE ValueLen(df, df.columns[c], cells[<<r, c>>])

\* lines 443-455: the width of column col_idx, from the scan of
\* sheet[f"{column_letter}2:{column_letter}{sheet.max_row}"]
column_width(df, cells, col_idx) ==
    LET max_length ==
            SetMax({0} \cup {CellLen(df, cells, r, col_idx) : r \in HeaderRow..max_row(cells)})
        adjusted_width ==
            IF max_length + WidthPadding < MaxWidth THEN max_length + WidthPadding
            ELSE MaxWidth
    IN  adjusted_width

\* the cells generate_excel fills, by <<row, column>>
sheet_cells(df) ==
    LET vals == Values(df)
        ncols == Len(df.columns)
        r_idx(i) == FirstDataIndex + (i - 1)
        titleCells == {<<1, 1>>}
        headerCells == {<<HeaderRow, c>> : c \in 1..ncols}
        dataCells == {<<DataCellRow(r_idx(i)), c>> : i \in DOMAIN vals, c \in 1..ncols}
        rowOf(r) == CHOOSE i \in DOMAIN vals : DataCellRow(r_idx(i)) = r
    IN  [rc \in titleCells \cup headerCells \cup dataCells |->
           IF rc \in titleCells THEN SheetTitle
           ELSE IF rc \in headerCells THEN df.columns[rc[2]]
           ELSE vals[rowOf(rc[1])][rc[2]]]

\* the workbook generate_excel saves: the cells that hold a value and the
\* column widths
generate_excel_body(df) ==
    LET cells == sheet_cells(df)
    IN  [sheet |-> "Enquiries",
         merged |-> "A1:G1",
         cells |-> cells,
         widths |-> [c \in 1..NumColumns |-> column_width(df, cells, c)]]

\* ------------------------------------------------------------ generate_pdf
\* str(cell)
Str(df, column, value) ==
    IF column # "id" THEN <<"str", value>>
    ELSE IF value = NaN THEN <<"str", "nan">>
    ELSE IF HasNaN(df) THEN <<"str", ToString(value) \o ".0">>
    ELSE <<"str", ToString(value)>>

generate_pdf_body(df) ==
    LET vals == Values(df)
        \* data = [df.columns.tolist()] + df.values.tolist()
        header == [c \in DOMAIN df.columns |-> <<"str", df.columns[c]>>]
        body == [i \in DOMAIN vals |->
                   [c \in DOMAIN df.columns |-> Str(df, df.columns[c], vals[i][c])]]
    IN  [title |-> SheetTitle,
         col_widths |-> <<40, 80, 100, 80, 140, 80, 80>>,
         table |-> <<header>> \o body]

\* st.cache_data on a function of df: the entry of an equal df is served
Cached(cache, df) == df \in DOMAIN cache

Memoise(cache, df, out) ==
    [d \in DOMAIN cache \cup {df} |-> IF d = df THEN out ELSE cache[d]]

\* the frame an export is made from: the one this session's get_enquiries
\* returned in the step before, or the one it has just exported
HeldFrame(s) ==
    IF last.fn \in {"get_enquiries", "generate_excel", "generate_pdf"} /\ last.s = s
    THEN <<IF last.fn = "get_enquiries" THEN last.ret ELSE last.df>>
    ELSE <<>>

generate_excel(s) ==
    /\ HeldFrame(s) # <<>>
    /\ LET df == HeldFrame(s)[1]
           out == IF Cached(xlsCache, df) THEN xlsCache[df]
                  ELSE generate_excel_body(df)
       IN  /\ xlsCache' = Memoise(xlsCache, df, out)
           /\ last' = [fn |-> "generate_excel", s |-> s, df |-> df, out |-> out,
                       down |-> last.down, path |-> last.path]
    /\ UNCHANGED <<envOk, dbUp, engine, storeVars, localEnq, geCache, pdfCache,
                   authVars>>

generate_pdf(s) ==
    /\ HeldFrame(s) # <<>>
    /\ LET df == HeldFrame(s)[1]
           out == IF Cached(pdfCache, df) THEN pdfCache[df]
                  ELSE generate_pdf_body(df)
       IN  /\ pdfCache' = Memoise(pdfCache, df, out)
           /\ last' = [fn |-> "generate_pdf", s |-> s, df |-> df, out |-> out,
                       down |-> last.down, path |-> last.path]
    /\ UNCHANGED <<envOk, dbUp, engine, storeVars, localEnq, geCache, xlsCache,
                   authVars>>

\* ------------------------------------------------------------ credentials
OwnerName == "owner"
DefaultPassword == "sylva123"

\* what a visitor can put into the login form
Usernames == {OwnerName, "nouser"}
Passwords == {DefaultPassword, "wrong", ""}

\* bcrypt.gensalt()
Salts == {"salt-a", "salt-b"}

\* bcrypt.hashpw: the salt in clear, then a digest that the salt and the
\* password determine (taken to be free of collisions)
hashpw(password, salt) == [salt |-> salt, digest |-> <<salt, password>>]

\* bcrypt.checkpw: hash the candidate under the stored salt and compare
checkpw(password, hashed) == hashpw(password, hashed.salt) = hashed

\* SELECT ... FROM users WHERE username = :username, fetchone(): <<>> or <<row>>
SelectUser(tbl, username) ==
    LET found == {i \in DOMAIN tbl : tbl[i].username = username}
    IN  IF found = {} THEN <<>>
        ELSE <<tbl[CHOOSE i \in found : \A j \in found : i <= j]>>

\* (variant) a users table declared without the primary key
NoPrimaryKey(tbl, username) == FALSE

\* username VARCHAR(255) PRIMARY KEY: a second row for a username is refused
UniqueViolation(tbl, username) == SelectUser(tbl, username) # <<>>

\* ------------------------------------------------------- add_default_owner
\* the row of another session's open transaction holds the key: the INSERT waits
KeyLocked(s) == \E o \in Sessions \ {s} : pending[o] # <<>>

AdoReturn(s, ret, raised) ==
    /\ pc' = [pc EXCEPT ![s] = "idle"]
    /\ last' = [fn |-> "add_default_owner", s |-> s, ret |-> ret, raised |-> raised]

\* (variant) a bootstrap that resets the password of an owner it finds
ado_select_resetting(s) ==
    /\ pc[s] = "idle"
    /\ engine' = get_db_connection
    /\ IF engine' = "None"
       THEN AdoReturn(s, FALSE, "") /\ UNCHANGED users
       ELSE IF ~Reachable
       THEN AdoReturn(s, FALSE, "OperationalError") /\ UNCHANGED users
       ELSE IF ~tables
       THEN AdoReturn(s, FALSE, "ProgrammingError") /\ UNCHANGED users
       ELSE IF SelectUser(users, OwnerName) # <<>>
       THEN /\ AdoReturn(s, TRUE, "")
            /\ users' = [i \in DOMAIN users |->
                  IF users[i].username = OwnerName
                  THEN [users[i] EXCEPT !.password =
                          hashpw(DefaultPassword, CHOOSE salt \in Salts : TRUE)]
                  ELSE users[i]]
       ELSE /\ pc' = [pc EXCEPT ![s] = "insert"]
            /\ last' = [fn |-> "add_default_owner: select", s |-> s]
            /\ UNCHANGED users
    /\ UNCHANGED <<envOk, dbUp, tables, enquiries, nextId, localEnq, cacheVars,
                   logged_in, view, pending>>

\* get_db_connection and the SELECT
ado_select(s) ==
    /\ pc[s] = "idle"
    /\ engine' = get_db_connection
    /\ IF engine' = "None"
       THEN AdoReturn(s, FALSE, "")
       ELSE IF ~Reachable THEN AdoReturn(s, FALSE, "OperationalError")
       ELSE IF ~tables THEN AdoReturn(s, FALSE, "ProgrammingError")
       ELSE IF SelectUser(users, OwnerName) # <<>> THEN AdoReturn(s, TRUE, "")
       ELSE /\ pc' = [pc EXCEPT ![s] = "insert"]
            /\ last' = [fn |-> "add_default_owner: select", s |-> s]
    /\ UNCHANGED <<envOk, dbUp, storeVars, localEnq, cacheVars, logged_in, view,
                   pending>>

\* hashpw and the INSERT
ado_insert(s, salt) ==
    /\ pc[s] = "insert"
    /\ Reachable => ~KeyLocked(s)
    /\ IF ~Reachable
       THEN AdoReturn(s, FALSE, "OperationalError") /\ UNCHANGED pending
       ELSE IF UniqueViolation(users, OwnerName)
       THEN AdoReturn(s, FALSE, "IntegrityError") /\ UNCHANGED pending
       ELSE /\ pending' = [pending EXCEPT ![s] =
                  <<[username |-> OwnerName,
                     password |-> hashpw(DefaultPassword, salt)]>>]
            /\ pc' = [pc EXCEPT ![s] = "commit"]
            /\ last' = [fn |-> "add_default_owner: insert", s |-> s]
    /\ UNCHANGED <<envOk, dbUp, engine, storeVars, localEnq, cacheVars,
                   logged_in, view>>

\* conn.commit()
ado_commit(s) ==
    /\ pc[s] = "commit"
    /\ IF Reachable /\ pending[s] # <<>>
       THEN /\ users' = Append(users, pending[s][1])
            /\ AdoReturn(s, TRUE, "")
       ELSE /\ AdoReturn(s, FALSE, "OperationalError")
            /\ UNCHANGED users
    /\ pending' = [pending EXCEPT ![s] = <<>>]
    /\ UNCHANGED <<envOk, dbUp, engine, tables, enquiries, nextId, localEnq,
                   cacheVars, logged_in, view>>

\* ------------------------------------------------------------ verify_login
\* (variant) the row is looked up but the password is not checked
verify_login_without_checkpw(username, password) ==
    IF get_db_connection = "None" THEN FALSE
    ELSE IF ~(Reachable /\ tables) THEN FALSE
    ELSE SelectUser(users, username) # <<>>

verify_login(username, password) ==
    IF get_db_connection = "None" THEN FALSE
    ELSE IF ~(Reachable /\ tables) THEN FALSE
    ELSE LET result == SelectUser(users, username)
         IN  IF result # <<>> THEN checkpw(password, result[1].password)
             ELSE FALSE

\* ---------------------------------------------------------- the login tab
\* lines 525-526: the flag of a new session
session_init(s) ==
    /\ logged_in[s] = <<>>
    /\ logged_in' = [logged_in EXCEPT ![s] = <<FALSE>>]
    /\ last' = [fn |-> "session_init", s |-> s]
    /\ UNCHANGED <<envOk, dbUp, engine, storeVars, localEnq, cacheVars, view, pc,
                   pending>>

\* lines 569-584: the login form, or the dashboard
OwnerTabBranch(flag) == IF ~flag THEN "login_form" ELSE "dashboard"

owner_tab(s) ==
    /\ logged_in[s] # <<>>
    /\ view' = [view EXCEPT ![s] = OwnerTabBranch(logged_in[s][1])]
    /\ last' = [fn |-> "owner_tab", s |-> s]
    /\ UNCHANGED <<envOk, dbUp, engine, storeVars, localEnq, cacheVars,
                   logged_in, pc, pending>>

\* (variant) the flag set whatever the check said
SetLoggedInUnchecked(flag, ok) == TRUE

\* lines 576-577: the flag after the check
SetLoggedIn(flag, ok) == IF ok THEN TRUE ELSE flag

MsgInvalid == "Invalid username or password"

\* the submit handler of the login form; st.rerun() ends the run
login_form(s, username, password) ==
    /\ view[s] = "login_form"
    /\ logged_in[s] = <<FALSE>>
    /\ LET ok == verify_login(username, password)
       IN  /\ engine' = get_db_connection
           /\ logged_in' = [logged_in EXCEPT ![s] = <<SetLoggedIn(@[1], ok)>>]
           /\ view' = [view EXCEPT ![s] = IF ok THEN "none" ELSE "login_form"]
           /\ last' = [fn |-> "login_form", s |-> s, username |-> username,
                       password |-> password, ret |-> ok,
                       msg |-> IF ok THEN "Logged in successfully!" ELSE MsgInvalid]
    /\ UNCHANGED <<envOk, dbUp, storeVars, localEnq, cacheVars, pc, pending>>

\* ------------------------------------------------------------------- Init
\* A fresh store and a fresh server process: no table, nothing cached, no
\* session state.  The environment may or may not name the store.
Init ==
    /\ envOk \in BOOLEAN
    /\ dbUp \in BOOLEAN
    /\ engine = "uncached"
    /\ tables = FALSE
    /\ enquiries = <<>>
    /\ nextId = 1
    /\ users = <<>>
    /\ localEnq = [s \in Sessions |-> <<>>]
    /\ geCache = <<>>
    /\ xlsCache = <<>>
    /\ pdfCache = <<>>
    /\ logged_in = [s \in Sessions |-> <<>>]
    /\ view = [s \in Sessions |-> "none"]
    /\ pc = [s \in Sessions |-> "idle"]
    /\ pending = [s \in Sessions |-> <<>>]
    /\ last = [fn |-> "start"]

\* the enquiry form in front of the store, with every kind of submission
NextSubmit ==
    \/ StoreDown
    \/ StoreUp
    \/ init_db
    \/ \E s \in Sessions, sub \in Submissions, t \in Timestamps :
          enquiry_form(s, sub, t)

SpecSubmit == Init /\ [][NextSubmit]_vars

ValidSubmissions == {sub \in Submissions : Valid(sub)}

\* the enquiry pipeline: store, accepted submissions, read and export
NextEnquiry ==
    \/ StoreDown
    \/ StoreUp
    \/ init_db
    \/ \E s \in Sessions, sub \in ValidSubmissions, t \in Timestamps :
          enquiry_form(s, sub, t)
    \/ \E s \in Sessions : get_enquiries(s)
    \/ \E s \in Sessions : generate_excel(s)
    \/ \E s \in Sessions : generate_pdf(s)

SpecEnquiry == Init /\ [][NextEnquiry]_vars

\* the credentials: bootstrap, check and the login tab
NextAuth ==
    \/ StoreDown
    \/ StoreUp
    \/ init_db
    \/ \E s \in Sessions : ado_select(s)
    \/ \E s \in Sessions, salt \in Salts : ado_insert(s, salt)
    \/ \E s \in Sessions : ado_commit(s)
    \/ \E s \in Sessions : session_init(s)
    \/ \E s \in Sessions : owner_tab(s)
    \/ \E s \in Sessions, u \in Usernames, p \in Passwords : login_form(s, u, p)

SpecAuth == Init /\ [][NextAuth]_vars

\* the whole program
Next == NextSubmit \/ NextEnquiry \/ NextAuth

Spec == Init /\ [][Next]_vars

\* Every operation of the program, with the inputs cut down to what makes
\* each of them act: one session, complete submissions, one salt.
FirstSession == {s \in Sessions : \A o \in Sessions : s <= o}
CompleteSubmissions == {sub \in Submissions : Valid(sub) /\ sub.message # ""}
OneSalt == {CHOOSE salt \in Salts : TRUE}

NextOps ==
    \/ StoreDown
    \/ StoreUp
    \/ init_db
    \/ \E s \in FirstSession : ado_select(s)
    \/ \E s \in FirstSession, salt \in OneSalt : ado_insert(s, salt)
    \/ \E s \in FirstSession : ado_commit(s)
    \/ \E s \in FirstSession : session_init(s)
    \/ \E s \in FirstSession : owner_tab(s)
    \/ \E s \in FirstSession, p \in Passwords : login_form(s, OwnerName, p)
    \/ \E s \in FirstSession, sub \in CompleteSubmissions, t \in Timestamps :
          enquiry_form(s, sub, t)
    \/ \E s \in FirstSession : get_enquiries(s)
    \/ \E s \in FirstSession : generate_excel(s)
    \/ \E s \in FirstSession : generate_pdf(s)

SpecOps == Init /\ [][NextOps]_vars

\* The operator overrides the bootstrap password after deployment: the hash
\* of the owner's row is rewritten in the store itself, not by the script.
OperatorPasswords == {"s3cret"}

operator_replaces_hash(password, salt) ==
    /\ Reachable
    /\ tables
    /\ SelectUser(users, OwnerName) # <<>>
    /\ users' = [i \in DOMAIN users |->
          IF users[i].username = OwnerName
          THEN [users[i] EXCEPT !.password = hashpw(password, salt)]
          ELSE users[i]]
    /\ users' # users
    /\ last' = [fn |-> "operator_replaces_hash"]
    /\ UNCHANGED <<envOk, dbUp, engine, tables, enquiries, nextId, localEnq,
                   cacheVars, authVars>>

\* every operation of the program, on a store whose operator may have
\* replaced the owner's hash
NextOperated ==
    \/ NextOps
    \/ \E p \in OperatorPasswords, salt \in OneSalt : operator_replaces_hash(p, salt)
    \/ \E s \in FirstSession, p \in OperatorPasswords : login_form(s, OwnerName, p)

SpecOperated == Init /\ [][NextOperated]_vars

\* ============================================================ the claims
IsPrefix(a, b) == Len(a) <= Len(b) /\ SubSeq(b, 1, Len(a)) = a

\* seq without its i-th element
Without(seq, i) == SubSeq(seq, 1, i - 1) \o SubSeq(seq, i + 1, Len(seq))

\* the row holds what was submitted: the texts as they were, the categories
\* as a set
RoundTrips(row, sub) ==
    /\ row.name = sub.name
    /\ row.email = sub.email
    /\ row.phone = sub.phone
    /\ row.message = sub.message
    /\ SeqToSet(Split(row.furniture_type)) = SeqToSet(sub.furniture_types)

\* C1: a get_enquiries call made after save_enquiry has returned holds the
\* rows of the call made before it and exactly one more, the submitted one.
\* (Stated for a session that calls get_enquiries, submits, and calls
\* get_enquiries again, in three steps with nothing in between.)
C1_GetAfterSaveHasOneMoreRow ==
    (last.fn = "get_enquiries" /\ last.before # <<>> /\ last.sub # <<>>) =>
        LET b == last.before[1].rows
            a == last.ret.rows
        IN  /\ Len(a) = Len(b) + 1
            /\ \E i \in DOMAIN a :
                  /\ RoundTrips(a[i], last.sub[1])
                  /\ Len(Without(a, i)) = Len(b)

\* C2: when save_enquiry returns True and the form reports success, the
\* enquiries table has gained exactly one row, under a new identity.
C2_SuccessMeansRowInTable ==
    [][(last'.fn = "enquiry_form" /\ last'.called /\ last'.ret /\ last'.msg = MsgSuccess) =>
          /\ Len(enquiries') = Len(enquiries) + 1
          /\ IsPrefix(enquiries, enquiries')
          /\ \A i \in DOMAIN enquiries : enquiries[i].id # enquiries'[Len(enquiries')].id
      ]_vars

\* C3: a submission with an empty name, email, phone or category set adds no
\* row to the table or to any session's list and reports the validation
\* error; a submission with those four filled in is not rejected, whatever
\* its message.
C3_MissingFieldRejected ==
    [][last'.fn = "enquiry_form" =>
          LET sub == last'.sub
              missing == \/ sub.name = ""
                         \/ sub.email = ""
                         \/ sub.phone = ""
                         \/ sub.furniture_types = <<>>
          IN  /\ missing => /\ enquiries' = enquiries
                            /\ localEnq' = localEnq
                            /\ nextId' = nextId
                            /\ last'.msg = MsgRequired
              /\ ~missing => /\ last'.msg # MsgRequired
                             /\ Len(enquiries') + SumLen(localEnq', Sessions) = Saved + 1
      ]_vars

\* a rejected submission, made when the table already holds an enquiry
C3_Witness ==
    /\ last.fn = "enquiry_form"
    /\ last.sub.phone = ""
    /\ last.sub.name # ""
    /\ last.msg = MsgRequired
    /\ Len(enquiries) > 0

\* C7: what get_enquiries returns when the store is unreachable differs from
\* what it returns to the same session when the store is reachable and the
\* enquiries table is empty.
C7_UnreachableIsDistinguishable ==
    (last.fn = "get_enquiries" /\ last.path # "hit" /\ last.down) =>
        last.ret # TableFrame(<<>>, localEnq[last.s])

\* C8: an export made from the frame get_enquiries returns, with the store
\* reachable, is computed from every enquiry submitted so far.
C8_ExportHasEverySubmission ==
    (last.fn \in {"generate_excel", "generate_pdf"} /\ ~last.down) =>
        \A i \in DOMAIN enquiries :
            \E j \in DOMAIN last.df.rows : last.df.rows[j] = enquiries[i]

\* C9: the sheet holds the title in row 1, the headers in row 2 and the i-th
\* data row in row i + 2: N + 2 populated rows, none blank in between.
C9_DataRowsFollowHeader ==
    (last.fn = "generate_excel" /\ last.df.columns = Columns7) =>
        LET vals == Values(last.df)
            cells == last.out.cells
            n == Len(vals)
        IN  /\ cells[<<1, 1>>] = SheetTitle
            /\ \A c \in DOMAIN last.df.columns : cells[<<2, c>>] = last.df.columns[c]
            /\ \A i \in DOMAIN vals, c \in DOMAIN last.df.columns :
                  /\ <<i + 2, c>> \in DOMAIN cells
                  /\ cells[<<i + 2, c>>] = vals[i][c]
            /\ {rc[1] : rc \in DOMAIN cells} = 1..(n + 2)

\* C10: the enquiries table only grows by appended rows: every row that was
\* in it is still there, unchanged, and no identity is used twice.
C10_EnquiriesAppendOnly ==
    [][/\ IsPrefix(enquiries, enquiries')
       /\ \A i, j \in DOMAIN enquiries' :
             enquiries'[i].id = enquiries'[j].id => i = j
       /\ \A i \in DOMAIN enquiries' : enquiries'[i].id < nextId'
       /\ nextId' >= nextId
      ]_vars

\* the table is full, the owner is bootstrapped and logged in, and the
\* enquiries have been read and exported
C10_Witness ==
    /\ Len(enquiries) = MaxRows
    /\ SelectUser(users, OwnerName) # <<>>
    /\ \E s \in Sessions : logged_in[s] = <<TRUE>>
    /\ last.fn = "generate_pdf"
    /\ Len(last.df.rows) = MaxRows

OwnerRows == {i \in DOMAIN users : users[i].username = OwnerName}

\* C4: however the add_default_owner runs of the sessions interleave, users
\* never holds a second 'owner' row; a run that returns True, or that lost
\* the race and had its INSERT refused, leaves exactly one, and the refused
\* run has returned False to the script.
C4_OneOwnerRow ==
    /\ Cardinality(OwnerRows) <= 1
    /\ (last.fn = "add_default_owner" /\ (last.ret \/ last.raised = "IntegrityError")) =>
          /\ Cardinality(OwnerRows) = 1
          /\ pc[last.s] = "idle"
          /\ last.raised = "IntegrityError" => ~last.ret

\* a run saw no row, lost the race, and its INSERT was refused
C4_Witness ==
    /\ last.fn = "add_default_owner"
    /\ last.raised = "IntegrityError"
    /\ Cardinality(OwnerRows) = 1

\* C5: once the tables exist and the owner is bootstrapped, with the store
\* reachable, verify_login('owner', 'sylva123') is True; verify_login('owner', p)
\* is False for every other p; verify_login(u, p) is False for a username
\* without a row.
C5_VerifyLogin ==
    last.fn = "login_form" =>
        LET u == last.username
            p == last.password
        IN  /\ (/\ u = OwnerName
                /\ p = DefaultPassword
                /\ engine = "engine" /\ dbUp /\ tables
                /\ OwnerRows # {}) => last.ret
            /\ (u = OwnerName /\ p # DefaultPassword) => ~last.ret
            /\ (\A i \in DOMAIN users : users[i].username # u) => ~last.ret

\* the owner has logged in with the default password
C5_Witness ==
    /\ last.fn = "login_form"
    /\ last.username = OwnerName
    /\ last.password = DefaultPassword
    /\ last.ret

\* the stored hash of username is the hash of password under its own salt
Matches(username, password) ==
    \E i \in DOMAIN users :
        /\ users[i].username = username
        /\ users[i].password = hashpw(password, users[i].password.salt)

\* C6: the login flag is False when the session sets it first, turns True
\* only in a login step whose username and password match the stored hash,
\* never turns False again (the script has no logout step), and the
\* dashboard is rendered only while it is True.
C6_LoginFlag ==
    [][\A s \in Sessions :
          /\ (logged_in[s] = <<>> /\ logged_in'[s] # <<>>) => logged_in'[s] = <<FALSE>>
          /\ (logged_in[s] # <<TRUE>> /\ logged_in'[s] = <<TRUE>>) =>
                /\ logged_in[s] = <<FALSE>>
                /\ last'.fn = "login_form"
                /\ last'.s = s
                /\ last'.ret
                /\ Matches(last'.username, last'.password)
          /\ logged_in[s] = <<TRUE>> => logged_in'[s] = <<TRUE>>
          /\ view'[s] = "dashboard" => logged_in'[s] = <<TRUE>>
      ]_vars

\* a session that logged in and was shown the dashboard
C6_Witness ==
    \E s \in Sessions : logged_in[s] = <<TRUE>> /\ view[s] = "dashboard"

\* C11: once users holds a row for 'owner', no operation of the program
\* changes that row: init_db and add_default_owner run again leave the hash
\* as it is, also a hash the operator has put there; and a login step,
\* whether verify_login says True or False, leaves users and enquiries (and
\* the identity sequence and the tables) as they were.
C11_OwnerHashKept ==
    [][/\ (SelectUser(users, OwnerName) # <<>> /\ last'.fn # "operator_replaces_hash") =>
            SelectUser(users', OwnerName) = SelectUser(users, OwnerName)
       /\ last'.fn = "login_form" =>
            /\ users' = users
            /\ enquiries' = enquiries
            /\ nextId' = nextId
            /\ tables' = tables
      ]_vars

\* add_default_owner has run again on a store whose owner hash the operator
\* had replaced, and the replaced hash is still the stored one
C11_Witness ==
    /\ last.fn = "add_default_owner"
    /\ last.ret
    /\ \E p \in OperatorPasswords : Matches(OwnerName, p)

\* the greatest length of the string rendering of the header and of the
\* enquiry values of column c of df
LongestInColumn(df, c) ==
    SetMax({Len(df.columns[c])} \cup
           {ValueLen(df, df.columns[c], Values(df)[i][c]) : i \in DOMAIN df.rows})

\* C12: for each of the 7 columns the width is min(L + 2, 50), L the
\* greatest length of the rendering of the header or of an enquiry value in
\* the column; a cell that holds neither adds nothing to L.
C12_ColumnWidths ==
    (last.fn = "generate_excel" /\ last.df.columns = Columns7) =>
        \A c \in 1..NumColumns :
            LET L == LongestInColumn(last.df, c)
            IN  last.out.widths[c] = IF L + 2 < 50 THEN L + 2 ELSE 50

=============================================================================
